---- MODULE Spec2Model ----
(***************************************************************************)
(* HomeKit Accessory Protocol server (package hap).                        *)
(*                                                                         *)
(* Spec        : the pairing endpoints and the session/connection          *)
(*               registry.  A handler is split where it leaves one         *)
(*               critical section of the registry mutex (or one store      *)
(*               call) and enters the next, so that handlers of            *)
(*               different connections interleave as goroutines do.        *)
(* SpecSession : the encrypted session transport (Session.Encrypt,         *)
(*               Session.Decrypt, packetsWithSizeFromBytes).               *)
(***************************************************************************)
EXTENDS Integers, Sequences, FiniteSets, TLC

\* ------------------------------------------------------------------ bounds
NumAddrs == 2
MaxChunks == 2
MaxMsgs == 2
MaxTamper == 2
MaxRequests == 2

\* --------------------------------------------------------------- constants
Step1 == 1
Step2 == 2
Step3 == 3
Step4 == 4
Step5 == 5
Step6 == 6
PacketLengthMax == 1024

Addrs == 1..NumAddrs
Names == {"ctrl-A", "ctrl-B"}
Keys == {"ltpk-1", "ltpk-2"}
PermissionUser == "user"
PermissionAdmin == "admin"

VARIABLES
    store,      \* srv.st: the set of persisted Pairing records (one per Name)
    sessions,   \* var sessions: remote-addr -> session value
    conns,      \* var conns: remote-addr -> Conn
    pc,         \* position of the handler goroutine of each connection
    pending,    \* the Pairing a Step5 handler is about to save
    last,       \* the step taken last and the reply it wrote
    sess,       \* the Session of the writer and the Session of its peer
    wire,       \* framed chunks written and not yet read
    sent,       \* plaintexts handed to Encrypt, in order
    emitted,    \* every chunk Encrypt produced, in order
    received,   \* what each Decrypt call was given and what it returned
    tampers,    \* number of times the network dropped or swapped frames
    job,        \* the locals of the handler goroutine of each connection
    reqs,       \* number of requests to the pairings and characteristics endpoints
    chars       \* the characteristics: value and events map of each

srvVars == <<store, sessions, conns, pc, pending, last>>
sesVars == <<sess, wire, sent, emitted, received, tampers>>
admVars == <<job, reqs>>
chrVars == <<chars>>
vars == <<store, sessions, conns, pc, pending, last,
          sess, wire, sent, emitted, received, tampers,
          job, reqs, chars>>

\* ------------------------------------------------------------ session map
\* hkdf.Sha512(secret, salt, info): a key determined by its three inputs
HkdfSha512(secret, salt, info) == <<secret, salt, info>>

NoKey == <<"", "", "">>

NoSession ==
    [type |-> "none", PrivateKey |-> "nil", EncryptionKey |-> "zero",
     Pairing |-> "none", encryptKey |-> NoKey, decryptKey |-> NoKey,
     encryptCount |-> 0, decryptCount |-> 0]

\* NewPairSetupSession: a fresh SRP session, S and K not derived yet
NewPairSetupSession == [NoSession EXCEPT !.type = "setup"]

NewPairVerifySession == [NoSession EXCEPT !.type = "verify"]

\* NewSession(shared, p): keys from the shared secret, both counters zero;
\* the Session keeps a copy of the Pairing it was verified with
NewSession(shared, p) ==
    [type |-> "session", PrivateKey |-> "nil", EncryptionKey |-> "zero",
     Pairing |-> p,
     encryptKey |-> HkdfSha512(shared, "Control-Salt", "Control-Read-Encryption-Key"),
     decryptKey |-> HkdfSha512(shared, "Control-Salt", "Control-Write-Encryption-Key"),
     encryptCount |-> 0, decryptCount |-> 0]

\* Sessions(): a copy of the map taken under the mutex
Sessions == sessions

\* SetSession(addr, sess)
SetSession(m, addr, s) == [m EXCEPT ![addr] = s]

\* GetPairSetupSession(addr): ok only for an entry of type *PairSetupSession
GetPairSetupSession(addr) ==
    IF sessions[addr].type = "setup"
    THEN [ok |-> TRUE, ses |-> sessions[addr]]
    ELSE [ok |-> FALSE, ses |-> NoSession]

\* GetSession(addr): ok only for an entry of type *Session
GetSession(addr) ==
    IF sessions[addr].type = "session"
    THEN [ok |-> TRUE, ses |-> sessions[addr]]
    ELSE [ok |-> FALSE, ses |-> NoSession]

\* GetPairVerifySession(addr): ok only for an entry of type *PairVerifySession
GetPairVerifySession(addr) ==
    IF sessions[addr].type = "verify"
    THEN [ok |-> TRUE, ses |-> sessions[addr]]
    ELSE [ok |-> FALSE, ses |-> NoSession]

\* ------------------------------------------------------------------ store
Pairing(name, key, perm) == [Name |-> name, PublicKey |-> key, Permission |-> perm]

NoPairing == Pairing("", "", PermissionUser)

\* storer.SavePairing: Set(keyForPairingName(p.Name), json(p))
SavePairing(st, p) == {q \in st : q.Name # p.Name} \cup {p}

\* Server.isPaired: the store holds at least one Pairing
isPaired == store # {}

\* ---------------------------------------------------------------- replies
NoReply == [status |-> 0, State |-> 0, Error |-> "none", cause |-> "none"]

\* tlv8Error(res, state, err) after an optional res.WriteHeader(status)
tlv8Error(status, state, err, cause) ==
    [status |-> status, State |-> state, Error |-> err, cause |-> cause]

\* tlv8OK(res, resp): 200 and the payload's State
tlv8OK(state) == [status |-> 200, State |-> state, Error |-> "none", cause |-> "ok"]

\* the step a handler took, the reply it wrote and the Pairing it handled
\* what a characteristics handler called: the value-read hooks, the write
\* hooks and the events maps it wrote
NoHooks == [read |-> {}, wrote |-> {}, subs |-> {}]

Did(op, a, r) ==
    [op |-> op, addr |-> a, reply |-> r, pairing |-> NoPairing,
     req |-> <<>>, body |-> <<>>, hooks |-> NoHooks]

\* --------------------------------------------------------------- requests
\* pairSetupPayload as the handlers read it.  EncryptedData is described by
\* its length class, the key it was sealed with, whether its plaintext is
\* TLV8, and the inner Identifier, PublicKey and Signature.
EncData(short, key, tlv, id, pk, sig) ==
    [short |-> short, key |-> key, tlvOK |-> tlv, Identifier |-> id,
     PublicKey |-> pk, Signature |-> sig]

NoEnc == EncData(FALSE, "zero", FALSE, "ctrl-A", "ltpk-1", "bad")

Payload(malformed, method, state, A, proof, enc) ==
    [malformed |-> malformed, Method |-> method, State |-> state,
     PublicKey |-> A, Proof |-> proof, EncryptedData |-> enc]

EncDatas ==
    {EncData(TRUE, "zero", FALSE, "ctrl-A", "ltpk-1", "bad")}
    \cup {EncData(FALSE, k, FALSE, "ctrl-A", "ltpk-1", "bad") : k \in {"zero", "K", "other"}}
    \cup {EncData(FALSE, x[1], TRUE, x[2], x[3], x[4]) :
            x \in {"zero", "K"} \X Names \X Keys \X {"nil", "S", "bad"}}

SetupRequests ==
    {Payload(TRUE, "Pair", Step1, "ok", "ok", NoEnc)}
    \cup {Payload(FALSE, m, Step1, "ok", "ok", NoEnc) : m \in {"PairMFi", "other"}}
    \cup {Payload(FALSE, "Pair", s, "ok", "ok", NoEnc) : s \in {Step1, Step2}}
    \cup {Payload(FALSE, "Pair", Step3, x[1], x[2], NoEnc) :
            x \in {"ok", "bad"} \X {"ok", "bad"}}
    \cup {Payload(FALSE, "Pair", Step5, "ok", "ok", e) : e \in EncDatas}

\* MethodAddPairing, MethodDeletePairing, MethodListPairings requests as
\* the Pairings handler reads them
PairingReq(malformed, method, id, pk, perm) ==
    [malformed |-> malformed, Method |-> method, Identifier |-> id,
     PublicKey |-> pk, Permission |-> perm]

PairingRequests ==
    {PairingReq(TRUE, "AddPairing", "ctrl-A", "ltpk-1", PermissionUser)}
    \cup {PairingReq(FALSE, "AddPairing", "ctrl-A", k, perm) :
            k \in Keys, perm \in {PermissionUser, PermissionAdmin}}
    \cup {PairingReq(FALSE, "AddPairing", "ctrl-B", "ltpk-2", perm) :
            perm \in {PermissionUser, PermissionAdmin}}
    \cup {PairingReq(FALSE, "DeletePairing", n, "ltpk-1", PermissionUser) : n \in Names}
    \cup {PairingReq(FALSE, m, "ctrl-A", "ltpk-1", PermissionUser) :
            m \in {"ListPairings", "other"}}

NoJob == [d |-> PairingReq(FALSE, "none", "", "", PermissionUser), p |-> NoPairing]

\* the characteristics of the accessory: one that can be read and
\* subscribed to, one that can be read and written
PermissionRead == "pr"
PermissionWrite == "pw"
PermissionEvents == "ev"

Chars == {"sensor", "switch"}

Permissions(c) ==
    IF c = "sensor" THEN {PermissionRead, PermissionEvents}
    ELSE {PermissionRead, PermissionWrite}

\* ------------------------------------------------------------------- Init
InitRegistry ==
    /\ sessions = [a \in Addrs |-> NoSession]
    /\ conns = [a \in Addrs |-> "none"]
    /\ pc = [a \in Addrs |-> "idle"]
    /\ pending = [a \in Addrs |-> NoPairing]
    /\ last = Did("init", 0, NoReply)
    /\ job = [a \in Addrs |-> NoJob]
    /\ reqs = 0
    /\ chars = [c \in Chars |-> [Val |-> "v0", Events |-> [a \in Addrs |-> "unset"]]]

InitServer ==
    /\ store = {}
    /\ InitRegistry

\* ------------------------------------------------- connection life cycle
\* SetConn(addr, conn): the listener registers an accepted connection
SetConn(a) ==
    /\ UNCHANGED <<sesVars, admVars, chrVars>>
    /\ conns[a] = "none"
    /\ pc[a] = "idle"
    /\ conns' = [conns EXCEPT ![a] = "open"]
    /\ last' = Did("SetConn", a, NoReply)
    /\ UNCHANGED <<store, sessions, pc, pending>>

ConnStates == {"new", "active", "idle", "closed"}

ConnStateEvent_keepConn(a, event) ==
    /\ UNCHANGED <<sesVars, admVars, chrVars>>
    /\ conns[a] # "none"
    /\ pc[a] = "idle"
    /\ IF event = "closed"
       THEN /\ sessions' = [sessions EXCEPT ![a] = NoSession]
            /\ UNCHANGED conns
       ELSE UNCHANGED <<sessions, conns>>
    /\ last' = Did("ConnStateEvent", a, [NoReply EXCEPT !.cause = event])
    /\ UNCHANGED <<store, pc, pending>>

\* ConnStateEvent(conn, event): the http server reports a state once the
\* connection's serve loop is not inside a handler
ConnStateEvent(a, event) ==
    /\ UNCHANGED <<sesVars, admVars, chrVars>>
    /\ conns[a] # "none"
    /\ pc[a] = "idle"
    /\ IF event = "closed"
       THEN /\ sessions' = [sessions EXCEPT ![a] = NoSession]
            /\ conns' = [conns EXCEPT ![a] = "none"]
       ELSE UNCHANGED <<sessions, conns>>
    /\ last' = Did("ConnStateEvent", a, [NoReply EXCEPT !.cause = event])
    /\ UNCHANGED <<store, pc, pending>>

\* ------------------------------------------------------------ pair-setup
pairSetup_noPairedCheck(a) ==
    /\ UNCHANGED <<sesVars, admVars, chrVars>>
    /\ pc[a] = "idle"
    /\ conns[a] = "open"
    /\ last' = Did("pairSetup", a, NoReply)
    /\ pc' = [pc EXCEPT ![a] = "busy"]
    /\ UNCHANGED <<store, sessions, conns, pending>>

\* pairSetup, first part: pairing is only allowed if not paired yet
pairSetup(a) ==
    /\ UNCHANGED <<sesVars, admVars, chrVars>>
    /\ pc[a] = "idle"
    /\ conns[a] = "open"
    /\ IF isPaired
       THEN /\ last' = Did("pairSetup", a, tlv8Error(200, Step2, "Unavailable", "paired"))
            /\ UNCHANGED pc
       ELSE /\ last' = Did("pairSetup", a, NoReply)
            /\ pc' = [pc EXCEPT ![a] = "busy"]
    /\ UNCHANGED <<store, sessions, conns, pending>>

busy_anyAddr(a) == \E addr \in Addrs : Sessions[addr].type # "none"

\* the loop over sessions(): some other remote-addr holds a session value
busy(a) == \E addr \in Addrs : Sessions[addr].type # "none" /\ addr # a

\* pairSetup, second part: one controller at a time
pairSetupBusy(a) ==
    /\ UNCHANGED <<sesVars, admVars, chrVars>>
    /\ pc[a] = "busy"
    /\ IF busy(a)
       THEN /\ last' = Did("pairSetupBusy", a, tlv8Error(200, Step2, "Busy", "busy"))
            /\ pc' = [pc EXCEPT ![a] = "idle"]
       ELSE /\ last' = Did("pairSetupBusy", a, NoReply)
            /\ pc' = [pc EXCEPT ![a] = "body"]
    /\ UNCHANGED <<store, sessions, conns, pending>>

\* pairSetupStep1: create a session and store it under the remote-addr
pairSetupStep1(a, data) ==
    /\ sessions' = SetSession(sessions, a, NewPairSetupSession)
    /\ last' = Did("pairSetupStep1", a, tlv8OK(Step2))
    /\ pc' = [pc EXCEPT ![a] = "idle"]
    /\ UNCHANGED <<store, conns, pending>>

\* pairSetupStep3: S from A, verify M1, derive K
pairSetupStep3(a, data) ==
    LET got == GetPairSetupSession(a)
        withS == [got.ses EXCEPT !.PrivateKey = "S"]
        withK == [withS EXCEPT !.EncryptionKey = "K"]
    IN  /\ pc' = [pc EXCEPT ![a] = "idle"]
        /\ UNCHANGED <<store, conns, pending>>
        /\ IF ~got.ok
           THEN /\ last' = Did("pairSetupStep3", a, tlv8Error(500, Step2, "Unknown", "nosession"))
                /\ UNCHANGED sessions
           ELSE IF data.PublicKey # "ok"
           THEN /\ last' = Did("pairSetupStep3", a,
                               tlv8Error(200, data.State + 1, "InvalidRequest", "A"))
                /\ UNCHANGED sessions
           ELSE IF data.Proof # "ok"
           THEN /\ last' = Did("pairSetupStep3", a,
                               tlv8Error(200, data.State + 1, "InvalidRequest", "M1"))
                /\ sessions' = [sessions EXCEPT ![a] = withS]
           ELSE /\ last' = Did("pairSetupStep3", a, tlv8OK(Step4))
                /\ sessions' = [sessions EXCEPT ![a] = withK]

\* chacha20poly1305.DecryptAndVerify(ses.EncryptionKey, "PS-Msg05", msg, mac)
DecryptAndVerifyM5(ses, enc) == enc.key = ses.EncryptionKey

\* ed25519.ValidateSignature over HKDF(ses.PrivateKey) | Identifier | PublicKey
ValidateSignatureM5(ses, enc) == enc.Signature = ses.PrivateKey

\* pairSetupStep5 up to and including the reply
pairSetupStep5(a, data) ==
    LET got == GetPairSetupSession(a)
        enc == data.EncryptedData
    IN  /\ UNCHANGED <<store, sessions>>
        /\ IF ~got.ok
           THEN /\ last' = Did("pairSetupStep5", a, tlv8Error(500, Step6, "Unknown", "nosession"))
                /\ pc' = [pc EXCEPT ![a] = "idle"]
                /\ UNCHANGED <<conns, pending>>
           ELSE IF enc.short
           THEN \* EncryptedData[:len-16] panics; net/http recovers and
                \* closes the connection without a reply
                /\ last' = Did("pairSetupStep5", a, [NoReply EXCEPT !.cause = "panic"])
                /\ pc' = [pc EXCEPT ![a] = "idle"]
                /\ conns' = [conns EXCEPT ![a] = "closed"]
                /\ UNCHANGED pending
           ELSE IF ~DecryptAndVerifyM5(got.ses, enc)
           THEN /\ last' = Did("pairSetupStep5", a, tlv8Error(500, Step6, "Unknown", "decrypt"))
                /\ pc' = [pc EXCEPT ![a] = "idle"]
                /\ UNCHANGED <<conns, pending>>
           ELSE IF ~enc.tlvOK
           THEN /\ last' = Did("pairSetupStep5", a, tlv8Error(400, Step6, "Unknown", "tlv8"))
                /\ pc' = [pc EXCEPT ![a] = "idle"]
                /\ UNCHANGED <<conns, pending>>
           ELSE IF ~ValidateSignatureM5(got.ses, enc)
           THEN /\ last' = Did("pairSetupStep5", a,
                               tlv8Error(200, Step6, "InvalidRequest", "signature"))
                /\ pc' = [pc EXCEPT ![a] = "idle"]
                /\ UNCHANGED <<conns, pending>>
           ELSE /\ last' = Did("pairSetupStep5", a, tlv8OK(Step6))
                /\ pc' = [pc EXCEPT ![a] = "save"]
                /\ pending' = [pending EXCEPT
                                 ![a] = Pairing(enc.Identifier, enc.PublicKey, PermissionAdmin)]
                /\ UNCHANGED conns

\* pairSetupStep5, last statement: srv.savePairing(p), its error dropped.
\* storeOK is the outcome of fsStore.Set.
pairSetupStep5Save(a, storeOK) ==
    /\ UNCHANGED <<sesVars, admVars, chrVars>>
    /\ pc[a] = "save"
    /\ store' = IF storeOK THEN SavePairing(store, pending[a]) ELSE store
    /\ last' = [Did("pairSetupStep5Save", a, tlv8OK(Step6)) EXCEPT !.pairing = pending[a]]
    /\ pc' = [pc EXCEPT ![a] = "idle"]
    /\ pending' = [pending EXCEPT ![a] = NoPairing]
    /\ UNCHANGED <<sessions, conns>>

\* pairSetup, third part: parse the body and dispatch on Method and State
pairSetupBody(a, data) ==
    /\ UNCHANGED <<sesVars, admVars, chrVars>>
    /\ pc[a] = "body"
    /\ IF data.malformed
       THEN /\ last' = Did("pairSetupBody", a, tlv8Error(400, Step2, "Unknown", "tlv8"))
            /\ pc' = [pc EXCEPT ![a] = "idle"]
            /\ UNCHANGED <<store, sessions, conns, pending>>
       ELSE IF data.Method = "Pair"
       THEN IF data.State = Step1 THEN pairSetupStep1(a, data)
            ELSE IF data.State = Step3 THEN pairSetupStep3(a, data)
            ELSE IF data.State = Step5 THEN pairSetupStep5(a, data)
            ELSE /\ last' = Did("pairSetupBody", a, tlv8Error(400, Step2, "Unknown", "state"))
                 /\ pc' = [pc EXCEPT ![a] = "idle"]
                 /\ UNCHANGED <<store, sessions, conns, pending>>
       ELSE IF data.Method = "PairMFi"
       THEN /\ last' = Did("pairSetupBody", a, tlv8Error(400, Step2, "InvalidRequest", "method"))
            /\ pc' = [pc EXCEPT ![a] = "idle"]
            /\ UNCHANGED <<store, sessions, conns, pending>>
       ELSE /\ last' = Did("pairSetupBody", a, tlv8Error(400, 0, "InvalidRequest", "method"))
            /\ pc' = [pc EXCEPT ![a] = "idle"]
            /\ UNCHANGED <<store, sessions, conns, pending>>

\* ----------------------------------------------------------- pair-verify
\* Verify-Step1: retain a PairVerifySession under the remote-addr
pairVerifyStep1(a) ==
    /\ UNCHANGED <<sesVars, admVars, chrVars>>
    /\ pc[a] = "idle"
    /\ conns[a] = "open"
    /\ sessions' = SetSession(sessions, a, NewPairVerifySession)
    /\ last' = Did("pairVerifyStep1", a, tlv8OK(Step2))
    /\ UNCHANGED <<store, conns, pc, pending>>

\* Verify-Step3: install a Session bound to the Pairing, or clear the
\* PairVerifySession and answer Authentication
pairVerifyStep3(a, name, sigOK) ==
    /\ UNCHANGED <<sesVars, admVars, chrVars>>
    /\ pc[a] = "idle"
    /\ conns[a] = "open"
    /\ sessions[a].type = "verify"
    /\ IF sigOK /\ \E p \in store : p.Name = name
       THEN /\ sessions' = SetSession(sessions, a,
                               NewSession("shared", CHOOSE p \in store : p.Name = name))
            /\ last' = Did("pairVerifyStep3", a, tlv8OK(Step4))
       ELSE /\ sessions' = SetSession(sessions, a, NoSession)
            /\ last' = Did("pairVerifyStep3", a,
                           tlv8Error(200, Step4, "Authentication", "verify"))
    /\ UNCHANGED <<store, conns, pc, pending>>

\* --------------------------------------------------------------- pairings
\* jsonError(res, status)
jsonError(err) == [status |-> 0, State |-> 0, Error |-> err, cause |-> "json"]

\* storer.Pairing(name): the stored Pairing of that name, if there is one
HasPairing(st, name) == \E q \in st : q.Name = name

StoredPairing(st, name) == CHOOSE q \in st : q.Name = name

\* storer.DeletePairing(name)
DeletePairing(st, name) == {q \in st : q.Name # name}

\* Server.pairedWithAdmin: some stored Pairing has admin permission
pairedWithAdmin(st) == \E q \in st : q.Permission = PermissionAdmin

\* ss.Pairing.Permission != PermissionAdmin, on the Pairing the Session
\* was created with
AdminCheck(ss) == ss.Pairing.Permission = PermissionAdmin

\* Pairings, up to the switch on d.Method and the permission check
Pairings(a, d) ==
    /\ UNCHANGED <<sesVars, chrVars>>
    /\ pc[a] = "idle"
    /\ conns[a] = "open"
    /\ reqs < MaxRequests
    /\ reqs' = reqs + 1
    /\ UNCHANGED <<store, sessions, conns, pending>>
    /\ IF ~isPaired
       THEN /\ last' = Did("Pairings", a, jsonError("InsufficientPrivileges"))
            /\ UNCHANGED <<pc, job>>
       ELSE IF ~GetSession(a).ok
       THEN /\ last' = Did("Pairings", a, tlv8Error(500, Step2, "Unknown", "nosession"))
            /\ UNCHANGED <<pc, job>>
       ELSE IF d.malformed
       THEN /\ last' = Did("Pairings", a, tlv8Error(400, Step2, "Unknown", "tlv8"))
            /\ UNCHANGED <<pc, job>>
       ELSE IF d.Method \in {"AddPairing", "DeletePairing"}
       THEN IF ~AdminCheck(GetSession(a).ses)
            THEN /\ last' = Did("Pairings", a,
                                tlv8Error(200, Step2, "Authentication", d.Method))
                 /\ UNCHANGED <<pc, job>>
            ELSE /\ last' = Did("Pairings", a, NoReply)
                 /\ pc' = [pc EXCEPT ![a] = "lookup"]
                 /\ job' = [job EXCEPT ![a] = [d |-> d, p |-> NoPairing]]
       ELSE IF d.Method = "ListPairings"
       THEN /\ last' = Did("Pairings", a, NoReply)
            /\ pc' = [pc EXCEPT ![a] = "lookup"]
            /\ job' = [job EXCEPT ![a] = [d |-> d, p |-> NoPairing]]
       ELSE \* no case of the switch: the handler returns without a reply
            /\ last' = Did("Pairings", a, [NoReply EXCEPT !.status = 200, !.cause = "method"])
            /\ UNCHANGED <<pc, job>>

PairingsLookup_noKeyCheck(a) ==
    LET d == job[a].d
        found == HasPairing(store, d.Identifier)
        q == StoredPairing(store, d.Identifier)
    IN  /\ UNCHANGED <<sesVars, chrVars>>
        /\ pc[a] = "lookup"
        /\ UNCHANGED <<store, sessions, conns, pending, reqs>>
        /\ IF d.Method = "ListPairings"
           THEN /\ last' = Did("PairingsLookup", a, tlv8OK(0))
                /\ pc' = [pc EXCEPT ![a] = "idle"]
                /\ job' = [job EXCEPT ![a] = NoJob]
           ELSE IF d.Method = "AddPairing"
           THEN /\ last' = Did("PairingsLookup", a, NoReply)
                /\ pc' = [pc EXCEPT ![a] = "save"]
                /\ job' = [job EXCEPT ![a].p =
                             Pairing(d.Identifier, d.PublicKey, d.Permission)]
           ELSE IF ~found
                THEN /\ last' = Did("PairingsLookup", a,
                                    tlv8Error(200, Step2, "Unknown", "notfound"))
                     /\ pc' = [pc EXCEPT ![a] = "idle"]
                     /\ job' = [job EXCEPT ![a] = NoJob]
                ELSE /\ last' = Did("PairingsLookup", a, NoReply)
                     /\ pc' = [pc EXCEPT ![a] = "delete"]
                     /\ job' = [job EXCEPT ![a].p = q]

\* Pairings: srv.st.Pairing(d.Identifier) and what follows up to the next
\* store call; for MethodListPairings srv.st.Pairings() and the reply
PairingsLookup(a) ==
    LET d == job[a].d
        found == HasPairing(store, d.Identifier)
        q == StoredPairing(store, d.Identifier)
    IN  /\ UNCHANGED <<sesVars, chrVars>>
        /\ pc[a] = "lookup"
        /\ UNCHANGED <<store, sessions, conns, pending, reqs>>
        /\ IF d.Method = "ListPairings"
           THEN /\ last' = Did("PairingsLookup", a, tlv8OK(0))
                /\ pc' = [pc EXCEPT ![a] = "idle"]
                /\ job' = [job EXCEPT ![a] = NoJob]
           ELSE IF d.Method = "AddPairing"
           THEN IF found /\ q.PublicKey # d.PublicKey
                THEN /\ last' = Did("PairingsLookup", a,
                                    tlv8Error(200, Step2, "Unknown", "publickey"))
                     /\ pc' = [pc EXCEPT ![a] = "idle"]
                     /\ job' = [job EXCEPT ![a] = NoJob]
                ELSE /\ last' = Did("PairingsLookup", a, NoReply)
                     /\ pc' = [pc EXCEPT ![a] = "save"]
                     /\ job' = [job EXCEPT ![a].p =
                                  IF found THEN [q EXCEPT !.Permission = d.Permission]
                                  ELSE Pairing(d.Identifier, d.PublicKey, d.Permission)]
           ELSE IF ~found
                THEN /\ last' = Did("PairingsLookup", a,
                                    tlv8Error(200, Step2, "Unknown", "notfound"))
                     /\ pc' = [pc EXCEPT ![a] = "idle"]
                     /\ job' = [job EXCEPT ![a] = NoJob]
                ELSE /\ last' = Did("PairingsLookup", a, NoReply)
                     /\ pc' = [pc EXCEPT ![a] = "delete"]
                     /\ job' = [job EXCEPT ![a].p = q]

\* MethodAddPairing: srv.savePairing(p) and the reply
PairingsSave(a, storeOK) ==
    /\ UNCHANGED <<sesVars, chrVars>>
    /\ pc[a] = "save"
    /\ job[a].d.Method = "AddPairing"
    /\ IF storeOK
       THEN /\ store' = SavePairing(store, job[a].p)
            /\ last' = Did("PairingsSave", a, tlv8OK(Step2))
       ELSE /\ UNCHANGED store
            /\ last' = Did("PairingsSave", a, tlv8Error(200, Step2, "Unknown", "store"))
    /\ pc' = [pc EXCEPT ![a] = "idle"]
    /\ job' = [job EXCEPT ![a] = NoJob]
    /\ UNCHANGED <<sessions, conns, pending, reqs>>

\* MethodDeletePairing: srv.deletePairing(p) and the reply; removing a
\* key that is no longer there is an error of the store
PairingsDelete(a, storeOK) ==
    /\ UNCHANGED <<sesVars, chrVars>>
    /\ pc[a] = "delete"
    /\ IF storeOK /\ HasPairing(store, job[a].p.Name)
       THEN /\ store' = DeletePairing(store, job[a].p.Name)
            /\ last' = Did("PairingsDelete", a, tlv8OK(Step2))
            /\ pc' = [pc EXCEPT ![a] = "close"]
            /\ UNCHANGED job
       ELSE /\ UNCHANGED store
            /\ last' = Did("PairingsDelete", a, tlv8Error(200, Step2, "Unknown", "store"))
            /\ pc' = [pc EXCEPT ![a] = "idle"]
            /\ job' = [job EXCEPT ![a] = NoJob]
    /\ UNCHANGED <<sessions, conns, pending, reqs>>

CloseConn(c) == IF c = "none" THEN "none" ELSE "closed"

ToClose_anySession(name) ==
    {addr \in Addrs : conns[addr] # "none" /\ sessions[addr].type # "none"}

\* the loop over Conns() after a delete that left an admin: the
\* connections whose Session belongs to the removed controller
ToClose(name) ==
    {addr \in Addrs : /\ conns[addr] # "none"
                      /\ GetSession(addr).ok
                      /\ GetSession(addr).ses.Pairing.Name = name}

PairingsClose_keepOthers(a) ==
    /\ UNCHANGED <<sesVars, chrVars>>
    /\ pc[a] = "close"
    /\ conns' = [addr \in Addrs |->
                   IF addr \in ToClose(job[a].p.Name)
                   THEN CloseConn(conns[addr]) ELSE conns[addr]]
    /\ last' = [Did("PairingsClose", a, tlv8OK(Step2)) EXCEPT !.pairing = job[a].p]
    /\ pc' = [pc EXCEPT ![a] = "idle"]
    /\ job' = [job EXCEPT ![a] = NoJob]
    /\ UNCHANGED <<store, sessions, pending, reqs>>

\* MethodDeletePairing after the reply: close all connections if no admin
\* controller is paired anymore, else those of the removed controller
PairingsClose(a) ==
    /\ UNCHANGED <<sesVars, chrVars>>
    /\ pc[a] = "close"
    /\ IF ~pairedWithAdmin(store)
       THEN conns' = [addr \in Addrs |-> CloseConn(conns[addr])]
       ELSE conns' = [addr \in Addrs |->
                       IF addr \in ToClose(job[a].p.Name)
                       THEN CloseConn(conns[addr]) ELSE conns[addr]]
    /\ last' = [Did("PairingsClose", a, tlv8OK(Step2)) EXCEPT !.pairing = job[a].p]
    /\ pc' = [pc EXCEPT ![a] = "idle"]
    /\ job' = [job EXCEPT ![a] = NoJob]
    /\ UNCHANGED <<store, sessions, pending, reqs>>

\* -------------------------------------------------------- characteristics
\* jsonOK / jsonMultiStatus / http.StatusNoContent
jsonReply(status) == [status |-> status, State |-> 0, Error |-> "none", cause |-> "json"]

\* one element of a PUT body: aid.iid and the optional value, ev and r
PutElem(id, value, ev, r) == [id |-> id, value |-> value, ev |-> ev, r |-> r]

\* CharacteristicData of a response: value and status when set
CData(id, value, status) == [id |-> id, value |-> value, status |-> status]

\* CharacteristicData of a GET response: with the ev projection when asked
GetData(id, value, status, ev) == [id |-> id, value |-> value, status |-> status, ev |-> ev]

PutElems ==
    {PutElem(c, "v1", "absent", "absent") : c \in Chars}
    \cup {PutElem(c, "absent", ev, "absent") : c \in Chars, ev \in {"true", "false"}}
    \cup {PutElem(c, "v1", "absent", r) : c \in Chars, r \in {"true", "false"}}
    \cup {PutElem(c, "v1", "true", "true") : c \in Chars}
    \cup {PutElem("switch", "absent", "absent", "true"),
          PutElem("switch", "absent", "absent", "absent"),
          PutElem("missing", "v1", "absent", "absent")}

\* PUT bodies: one element, or two elements for two characteristics
PutRequests ==
    {<<e>> : e \in PutElems}
    \cup {<<PutElem("sensor", "v1", "absent", "absent"),
            PutElem("switch", "absent", "true", "absent")>>,
          <<PutElem("sensor", "absent", "true", "absent"),
            PutElem("switch", "absent", "false", "absent")>>}

\* an entry of the id list that is not of the form aid.iid
NoDot == "1"

\* GET queries: the id parameter and the ev flag
GetRequests ==
    {[ids |-> i, ev |-> FALSE] :
        i \in {<<>>, <<"switch">>, <<"sensor", "missing">>, <<NoDot, "switch", "sensor">>}}
    \cup {[ids |-> <<"sensor">>, ev |-> TRUE]}

\* len(strings.Split(str, ".")) = 2: the entry of the id list names a pair
IsPair(str) == str # NoDot

\* Server.findC(aid, iid): nil when no accessory holds the characteristic
findC(id) == id \in Chars

\* C.IsObservable: the characteristic has the Events permission
IsObservable(c) == PermissionEvents \in Permissions(c)

IsWritable(c) == PermissionWrite \in Permissions(c)

\* C.ValueRequest(req): the value the read hook returns
ValueRequest(cs, c) == cs[c].Val

\* C.SetValueRequest(v, req): the write hook; a characteristic without
\* write permission keeps its value
SetValueRequest(cs, c, v) ==
    IF IsWritable(c) THEN [cs EXCEPT ![c].Val = v] ELSE cs

RECURSIVE GetLoop_noErr(_, _, _, _)
GetLoop_noErr(ids, ev, a, acc) ==
    IF ids = <<>> THEN acc
    ELSE LET id == Head(ids)
         IN  IF ~IsPair(id)
             THEN GetLoop_noErr(Tail(ids), ev, a, acc)
             ELSE IF ~findC(id)
             THEN GetLoop_noErr(Tail(ids), ev, a,
                          [acc EXCEPT !.err = FALSE,
                                      !.arr = Append(@, GetData(id, "absent", "ServiceCommunicationFailure", "absent"))])
             ELSE GetLoop_noErr(Tail(ids), ev, a,
                          [acc EXCEPT !.arr = Append(@, GetData(id, ValueRequest(chars, id), "none",
                                                           IF ~ev THEN "absent"
                                                           ELSE IF chars[id].Events[a] = "true"
                                                           THEN "true" ELSE "false")),
                                      !.hooks.read = @ \cup {id}])

\* GetCharacteristics, the loop over the ids: an entry that is not a pair
\* is skipped
RECURSIVE GetLoop(_, _, _, _)
GetLoop(ids, ev, a, acc) ==
    IF ids = <<>> THEN acc
    ELSE LET id == Head(ids)
         IN  IF ~IsPair(id)
             THEN GetLoop(Tail(ids), ev, a, acc)
             ELSE IF ~findC(id)
             THEN GetLoop(Tail(ids), ev, a,
                          [acc EXCEPT !.err = TRUE,
                                      !.arr = Append(@, GetData(id, "absent", "ServiceCommunicationFailure", "absent"))])
             ELSE GetLoop(Tail(ids), ev, a,
                          [acc EXCEPT !.arr = Append(@, GetData(id, ValueRequest(chars, id), "none",
                                                           IF ~ev THEN "absent"
                                                           ELSE IF chars[id].Events[a] = "true"
                                                           THEN "true" ELSE "false")),
                                      !.hooks.read = @ \cup {id}])

\* GET /characteristics
GetCharacteristics(a, q) ==
    /\ UNCHANGED <<sesVars, chrVars>>
    /\ pc[a] = "idle"
    /\ conns[a] = "open"
    /\ reqs < MaxRequests
    /\ reqs' = reqs + 1
    /\ UNCHANGED <<store, sessions, conns, pc, pending, job>>
    /\ IF ~isPaired
       THEN last' = [Did("GetCharacteristics", a, jsonError("InsufficientPrivileges"))
                       EXCEPT !.req = q.ids]
       ELSE IF q.ids = <<>>
       THEN last' = [Did("GetCharacteristics", a, jsonError("InvalidValueInRequest"))
                       EXCEPT !.req = q.ids]
       ELSE LET g == GetLoop(q.ids, q.ev, a,
                             [arr |-> <<>>, err |-> FALSE, hooks |-> NoHooks])
            IN  last' = [Did("GetCharacteristics", a,
                             jsonReply(IF g.err THEN 207 ELSE 200))
                           EXCEPT !.req = q.ids, !.body = g.arr, !.hooks = g.hooks]

RECURSIVE PutLoop_subscribeAny(_, _, _)
PutLoop_subscribeAny(ds, a, acc) ==
    IF ds = <<>> THEN acc
    ELSE LET d == Head(ds)
         IN  IF ~findC(d.id)
             THEN PutLoop_subscribeAny(Tail(ds), a,
                          [acc EXCEPT !.arr = Append(@, CData(d.id, "absent",
                                                              "ServiceCommunicationFailure"))])
             ELSE LET value == IF d.r # "absent" THEN ValueRequest(acc.cs, d.id) ELSE "absent"
                      written == IF d.value # "absent"
                                 THEN SetValueRequest(acc.cs, d.id, d.value) ELSE acc.cs
                      refused == d.ev # "absent" /\ ~IsObservable(d.id)
                      cdata == CData(d.id, value,
                                     IF refused THEN "NotificationNotSupported" ELSE "none")
                      arr1 == IF d.r # "absent" THEN Append(acc.arr, cdata) ELSE acc.arr
                      arr2 == IF refused THEN Append(arr1, cdata) ELSE arr1
                      subscribed == IF d.ev # "absent"
                                    THEN [written EXCEPT ![d.id].Events[a] = d.ev]
                                    ELSE written
                 IN  PutLoop_subscribeAny(Tail(ds), a,
                         [cs |-> subscribed, arr |-> arr2,
                          hooks |-> [read |-> acc.hooks.read \cup
                                               (IF d.r # "absent" THEN {d.id} ELSE {}),
                                     wrote |-> acc.hooks.wrote \cup
                                               (IF d.value # "absent" THEN {d.id} ELSE {}),
                                     subs |-> acc.hooks.subs \cup
                                               (IF d.ev # "absent" THEN {d.id} ELSE {})]])

\* PutCharacteristics, the loop over data.Cs. cdata is one object: when it
\* is appended for r and again for a refused ev, both entries show its
\* final value and status. The value for r is read before the write hook
\* is called.
RECURSIVE PutLoop(_, _, _)
PutLoop(ds, a, acc) ==
    IF ds = <<>> THEN acc
    ELSE LET d == Head(ds)
         IN  IF ~findC(d.id)
             THEN PutLoop(Tail(ds), a,
                          [acc EXCEPT !.arr = Append(@, CData(d.id, "absent",
                                                              "ServiceCommunicationFailure"))])
             ELSE LET value == IF d.r # "absent" THEN ValueRequest(acc.cs, d.id) ELSE "absent"
                      written == IF d.value # "absent"
                                 THEN SetValueRequest(acc.cs, d.id, d.value) ELSE acc.cs
                      refused == d.ev # "absent" /\ ~IsObservable(d.id)
                      cdata == CData(d.id, value,
                                     IF refused THEN "NotificationNotSupported" ELSE "none")
                      arr1 == IF d.r # "absent" THEN Append(acc.arr, cdata) ELSE acc.arr
                      arr2 == IF refused THEN Append(arr1, cdata) ELSE arr1
                      subscribed == IF d.ev # "absent" /\ ~refused
                                    THEN [written EXCEPT ![d.id].Events[a] = d.ev]
                                    ELSE written
                 IN  PutLoop(Tail(ds), a,
                         [cs |-> subscribed, arr |-> arr2,
                          hooks |-> [read |-> acc.hooks.read \cup
                                               (IF d.r # "absent" THEN {d.id} ELSE {}),
                                     wrote |-> acc.hooks.wrote \cup
                                               (IF d.value # "absent" THEN {d.id} ELSE {}),
                                     subs |-> acc.hooks.subs \cup
                                               (IF d.ev # "absent" /\ ~refused
                                                THEN {d.id} ELSE {})]])

\* PUT /characteristics
PutCharacteristics(a, malformed, ds) ==
    /\ UNCHANGED sesVars
    /\ pc[a] = "idle"
    /\ conns[a] = "open"
    /\ reqs < MaxRequests
    /\ reqs' = reqs + 1
    /\ UNCHANGED <<store, sessions, conns, pc, pending, job>>
    /\ IF ~isPaired
       THEN /\ last' = [Did("PutCharacteristics", a, jsonError("InsufficientPrivileges"))
                          EXCEPT !.req = ds]
            /\ UNCHANGED chars
       ELSE IF malformed
       THEN /\ last' = [Did("PutCharacteristics", a, jsonError("InvalidValueInRequest"))
                          EXCEPT !.req = ds]
            /\ UNCHANGED chars
       ELSE LET u == PutLoop(ds, a, [cs |-> chars, arr |-> <<>>, hooks |-> NoHooks])
            IN  /\ chars' = u.cs
                /\ last' = [Did("PutCharacteristics", a,
                                 jsonReply(IF u.arr = <<>> THEN 204 ELSE 207))
                              EXCEPT !.req = ds, !.body = u.arr, !.hooks = u.hooks]

\* ------------------------------------------- the events map, step by step
\* The handlers of different connections run as goroutines.  A handler
\* touches c.Events in the statements of part_001:116 and part_001:192 and
\* holds no lock there; the access is a step of its own so that the
\* handlers interleave.
EventsPcs == {"evread", "evwrite"}

\* the handlers that are inside an access to the events map of c which
\* conflicts with an access of the given kind by a
Racing(a, c, kind) ==
    {b \in Addrs \ {a} : /\ pc[b] \in EventsPcs
                          /\ job[b].d.id = c
                          /\ (kind = "evwrite" \/ pc[b] = "evwrite")}

\* a handler reaches its access to c.Events
EventsBegin(a, c, ev, kind, op) ==
    /\ UNCHANGED <<sesVars, chrVars>>
    /\ last.op # "fatal"
    /\ pc[a] = "idle"
    /\ conns[a] = "open"
    /\ isPaired
    /\ reqs < MaxRequests
    /\ reqs' = reqs + 1
    /\ pc' = [pc EXCEPT ![a] = kind]
    /\ job' = [b \in Addrs |->
                 IF b = a
                 THEN [d |-> [id |-> c, ev |-> ev, raced |-> Racing(a, c, kind) # {}],
                       p |-> NoPairing]
                 ELSE IF b \in Racing(a, c, kind)
                 THEN [job[b] EXCEPT !.d.raced = TRUE]
                 ELSE job[b]]
    /\ last' = Did(op, a, NoReply)
    /\ UNCHANGED <<store, sessions, conns, pending>>

\* PutCharacteristics up to c.Events[req.RemoteAddr] = *d.Events
PutEventsBegin(a, c, ev) ==
    /\ IsObservable(c)
    /\ EventsBegin(a, c, ev, "evwrite", "PutEventsBegin")

\* GetCharacteristics with ev=1 up to the lookup c.Events[req.RemoteAddr]
GetEventsBegin(a, c) ==
    /\ findC(c)
    /\ EventsBegin(a, c, "absent", "evread", "GetEventsBegin")

\* the map write completes.  A write that did not overlap another access
\* stores the entry; one that did is a data race on a Go map: the entry
\* is stored, or it is lost, or the runtime stops the process.
PutEventsDone(a, outcome) ==
    /\ UNCHANGED sesVars
    /\ last.op # "fatal"
    /\ pc[a] = "evwrite"
    /\ (outcome # "stored") => job[a].d.raced
    /\ chars' = IF outcome = "stored"
                THEN [chars EXCEPT ![job[a].d.id].Events[a] = job[a].d.ev]
                ELSE chars
    /\ last' = IF outcome = "fatal" THEN Did("fatal", a, NoReply)
               ELSE Did("PutEventsDone", a, jsonReply(204))
    /\ pc' = [pc EXCEPT ![a] = "idle"]
    /\ job' = [job EXCEPT ![a] = NoJob]
    /\ UNCHANGED <<store, sessions, conns, pending, reqs>>

\* the map read completes.  A read that did not overlap a write returns
\* the entry; one that did returns either bool, or the runtime stops the
\* process.
GetEventsDone(a, outcome) ==
    /\ UNCHANGED <<sesVars, chrVars>>
    /\ last.op # "fatal"
    /\ pc[a] = "evread"
    /\ IF job[a].d.raced
       THEN outcome \in {"true", "false", "fatal"}
       ELSE outcome = (IF chars[job[a].d.id].Events[a] = "true" THEN "true" ELSE "false")
    /\ last' = IF outcome = "fatal" THEN Did("fatal", a, NoReply)
               ELSE [Did("GetEventsDone", a, jsonReply(200))
                       EXCEPT !.body = <<GetData(job[a].d.id,
                                                 ValueRequest(chars, job[a].d.id),
                                                 "none", outcome)>>]
    /\ pc' = [pc EXCEPT ![a] = "idle"]
    /\ job' = [job EXCEPT ![a] = NoJob]
    /\ UNCHANGED <<store, sessions, conns, pending, reqs>>

\* ------------------------------------------------------ session transport
Min(x, y) == IF x < y THEN x ELSE y

\* the n bytes of a plaintext
Plain(n, seed) == [i \in 1..n |-> (7 * i + seed) % 251]

\* plaintext lengths of the first message: empty, one byte, and one byte
\* less than, exactly, and one byte more than one chunk and MaxChunks chunks
Lengths ==
    {0, 1}
    \cup {k * PacketLengthMax + d : k \in {1, MaxChunks}, d \in {-1, 0, 1}}

\* lengths of the messages that follow the first: a short one, and a full
\* chunk without a short chunk after it
FollowLengths == {PacketLengthMax - 1, PacketLengthMax}

\* chacha20poly1305.EncryptAndSeal(key, nonce, message, add): ciphertext
\* and tag, opened only by the same key, nonce and additional data
EncryptAndSeal(key, nonce, value, aad) ==
    [key |-> key, nonce |-> nonce, aad |-> aad, pt |-> value]

\* chacha20poly1305.DecryptAndVerify(key, nonce, message, mac, add)
DecryptAndVerify(key, nonce, sealed, aad) ==
    [ok |-> sealed.key = key /\ sealed.nonce = nonce /\ sealed.aad = aad,
     pt |-> sealed.pt]

\* binary.LittleEndian.PutUint16(b, uint16(n))
PutUint16(n) == n % 65536

\* packetsWithSizeFromBytes(length, r) on the bytes r of an in-memory reader:
\* Read fills the buffer while bytes remain and returns 0 at the end
RECURSIVE packetsWithSizeFromBytes(_, _)
packetsWithSizeFromBytes(length, r) ==
    LET n == Min(length, Len(r))
        p == [length |-> n, value |-> SubSeq(r, 1, n)]
    IN  IF n = 0 THEN <<>>
        ELSE IF n < length THEN <<p>>
        ELSE <<p>> \o packetsWithSizeFromBytes(length, SubSeq(r, n + 1, Len(r)))

packetsFromBytes(r) == packetsWithSizeFromBytes(PacketLengthMax, r)

RECURSIVE EncryptLoop_countOnce(_, _, _)
EncryptLoop_countOnce(s, packets, buf) ==
    IF packets = <<>>
    THEN [s |-> [s EXCEPT !.encryptCount = @ + Min(1, Len(buf))], buf |-> buf]
    ELSE LET p == Head(packets)
             bLength == PutUint16(p.length)
             sealed == EncryptAndSeal(s.encryptKey, s.encryptCount, p.value, bLength)
         IN  EncryptLoop_countOnce(s, Tail(packets),
                                   Append(buf, [length |-> bLength, sealed |-> sealed]))

\* Session.Encrypt, the loop over the packets: the nonce is the counter,
\* which goes up by one per packet
RECURSIVE EncryptLoop(_, _, _)
EncryptLoop(s, packets, buf) ==
    IF packets = <<>>
    THEN [s |-> s, buf |-> buf]
    ELSE LET p == Head(packets)
             nonce == s.encryptCount
             s1 == [s EXCEPT !.encryptCount = @ + 1]
             bLength == PutUint16(p.length)
             sealed == EncryptAndSeal(s.encryptKey, nonce, p.value, bLength)
         IN  EncryptLoop(s1, Tail(packets),
                         Append(buf, [length |-> bLength, sealed |-> sealed]))

\* Session.Encrypt(r): the session afterwards and the framed chunks
Encrypt(s, r) == EncryptLoop(s, packetsFromBytes(r), <<>>)

RECURSIVE Decrypt_ignoreTag(_, _, _)
Decrypt_ignoreTag(s, r, buf) ==
    IF r = <<>>
    THEN [s |-> s, err |-> FALSE, buf |-> buf, rest |-> r]
    ELSE LET c == Head(r)
             d == DecryptAndVerify(s.decryptKey, s.decryptCount, c.sealed, PutUint16(c.length))
             s1 == [s EXCEPT !.decryptCount = @ + 1]
         IN  IF c.length < PacketLengthMax
             THEN [s |-> s1, err |-> FALSE, buf |-> buf \o d.pt, rest |-> Tail(r)]
             ELSE Decrypt_ignoreTag(s1, Tail(r), buf \o d.pt)

RECURSIVE Decrypt_staleNonce(_, _, _)
Decrypt_staleNonce(s, r, buf) ==
    IF r = <<>>
    THEN [s |-> s, err |-> FALSE, buf |-> buf, rest |-> r]
    ELSE LET c == Head(r)
             d == DecryptAndVerify(s.decryptKey, s.decryptCount - Len(buf) \div PacketLengthMax,
                                   c.sealed, PutUint16(c.length))
             s1 == [s EXCEPT !.decryptCount = @ + 1]
         IN  IF ~d.ok
             THEN [s |-> s1, err |-> TRUE, buf |-> <<>>, rest |-> Tail(r)]
             ELSE IF c.length < PacketLengthMax
             THEN [s |-> s1, err |-> FALSE, buf |-> buf \o d.pt, rest |-> Tail(r)]
             ELSE Decrypt_staleNonce(s1, Tail(r), buf \o d.pt)

RECURSIVE Decrypt_stopAtFull(_, _, _)
Decrypt_stopAtFull(s, r, buf) ==
    IF r = <<>>
    THEN [s |-> s, err |-> FALSE, buf |-> buf, rest |-> r]
    ELSE LET c == Head(r)
             d == DecryptAndVerify(s.decryptKey, s.decryptCount, c.sealed, PutUint16(c.length))
             s1 == [s EXCEPT !.decryptCount = @ + 1]
         IN  IF ~d.ok
             THEN [s |-> s1, err |-> TRUE, buf |-> <<>>, rest |-> Tail(r)]
             ELSE IF c.length <= PacketLengthMax
             THEN [s |-> s1, err |-> FALSE, buf |-> buf \o d.pt, rest |-> Tail(r)]
             ELSE Decrypt_stopAtFull(s1, Tail(r), buf \o d.pt)

\* Session.Decrypt, the loop: r is the sequence of frames the reader still
\* holds; an empty r is io.EOF at the length prefix
RECURSIVE DecryptLoop(_, _, _)
DecryptLoop(s, r, buf) ==
    IF r = <<>>
    THEN [s |-> s, err |-> FALSE, buf |-> buf, rest |-> r]
    ELSE LET c == Head(r)
             nonce == s.decryptCount
             s1 == [s EXCEPT !.decryptCount = @ + 1]
             d == DecryptAndVerify(s.decryptKey, nonce, c.sealed, PutUint16(c.length))
         IN  IF ~d.ok
             THEN [s |-> s1, err |-> TRUE, buf |-> <<>>, rest |-> Tail(r)]
             ELSE IF c.length < PacketLengthMax
             THEN [s |-> s1, err |-> FALSE, buf |-> buf \o d.pt, rest |-> Tail(r)]
             ELSE DecryptLoop(s1, Tail(r), buf \o d.pt)

\* Session.Decrypt(r)
Decrypt(s, r) == DecryptLoop(s, r, <<>>)

\* the controller's Session of the same connection: the same derivation
\* with the two directions exchanged
PeerSession(shared, p) ==
    LET s == NewSession(shared, p)
    IN  [s EXCEPT !.encryptKey = s.decryptKey, !.decryptKey = s.encryptKey]

\* the accessory writes one message of n bytes
DoEncrypt(n) ==
    /\ UNCHANGED <<srvVars, admVars, chrVars>>
    /\ Len(sent) < MaxMsgs
    /\ n \in (IF sent = <<>> THEN Lengths ELSE FollowLengths)
    /\ LET e == Encrypt(sess.S, Plain(n, Len(sent)))
       IN  /\ sess' = [sess EXCEPT !.S = e.s]
           /\ wire' = wire \o e.buf
           /\ emitted' = emitted \o [i \in 1..Len(e.buf) |->
                                       [length |-> e.buf[i].length,
                                        nonce |-> e.buf[i].sealed.nonce]]
           /\ sent' = Append(sent, [len |-> n, seed |-> Len(sent),
                                    first |-> sess.S.encryptCount, n |-> Len(e.buf)])
    /\ UNCHANGED <<received, tampers>>

\* the controller reads one message from the connection
DoDecrypt ==
    /\ UNCHANGED <<srvVars, admVars, chrVars>>
    /\ Len(received) < Len(sent)
    /\ LET d == Decrypt(sess.peer, wire)
       IN  /\ sess' = [sess EXCEPT !.peer = d.s]
           /\ wire' = d.rest
           /\ received' = Append(received,
                  [in |-> [i \in 1..Len(wire) |-> wire[i].sealed.nonce],
                   before |-> sess.peer.decryptCount,
                   written |-> Len(emitted),
                   n |-> Len(wire) - Len(d.rest),
                   err |-> d.err,
                   data |-> d.buf])
    /\ UNCHANGED <<sent, emitted, tampers>>

\* the network loses the frames i..j in flight
DropChunks(i, j) ==
    /\ UNCHANGED <<srvVars, admVars, chrVars>>
    /\ tampers < MaxTamper
    /\ i \in 1..Len(wire)
    /\ j \in i..Len(wire)
    /\ wire' = SubSeq(wire, 1, i - 1) \o SubSeq(wire, j + 1, Len(wire))
    /\ tampers' = tampers + 1
    /\ UNCHANGED <<sess, sent, emitted, received>>

\* the network exchanges the i-th frame with the next one
SwapChunks(i) ==
    /\ UNCHANGED <<srvVars, admVars, chrVars>>
    /\ tampers < MaxTamper
    /\ i \in 1..(Len(wire) - 1)
    /\ wire' = [wire EXCEPT ![i] = wire[i + 1], ![i + 1] = wire[i]]
    /\ tampers' = tampers + 1
    /\ UNCHANGED <<sess, sent, emitted, received>>

\* ------------------------------------------- the accessory's connection
\* the remote-addr of the connection the Session belongs to
ConnAddr == 1

\* plaintext lengths the controller writes: one short chunk, and a full
\* chunk followed by a short one
ReadLengths == {1, PacketLengthMax + 1}

\* a sealed chunk one of whose ciphertext bytes was changed in flight: no
\* key opens it
Flipped(c) == c.sealed.key = <<"flipped", "", "">>

\* the controller writes one message of n bytes on the connection
PeerEncrypt(n) ==
    /\ conns[ConnAddr] = "open"
    /\ Len(sent) < MaxMsgs
    /\ n \in ReadLengths
    /\ LET e == Encrypt(sess.peer, Plain(n, Len(sent)))
       IN  /\ sess' = [sess EXCEPT !.peer = e.s]
           /\ wire' = wire \o e.buf
           /\ sent' = Append(sent, [len |-> n, seed |-> Len(sent),
                                    first |-> sess.peer.encryptCount, n |-> Len(e.buf)])
    /\ last' = Did("PeerEncrypt", ConnAddr, NoReply)
    /\ UNCHANGED <<store, sessions, conns, pc, pending, emitted, received, tampers>>
    /\ UNCHANGED <<admVars, chrVars>>

\* one byte of the ciphertext of the i-th frame in flight is flipped
FlipByte(i) ==
    /\ tampers < MaxTamper
    /\ i \in 1..Len(wire)
    /\ ~Flipped(wire[i])
    /\ wire' = [wire EXCEPT ![i].sealed.key = <<"flipped", "", "">>]
    /\ tampers' = tampers + 1
    /\ last' = Did("FlipByte", ConnAddr, NoReply)
    /\ UNCHANGED <<store, sessions, conns, pc, pending, sess, sent, emitted, received>>
    /\ UNCHANGED <<admVars, chrVars>>

\* Conn.Read on the accessory: the bytes that arrived go through the
\* Session's Decrypt; when Decrypt fails the connection is closed
ConnRead ==
    /\ conns[ConnAddr] = "open"
    /\ GetSession(ConnAddr).ok
    /\ wire # <<>>
    /\ LET d == Decrypt(sess.S, wire)
       IN  /\ sess' = [sess EXCEPT !.S = d.s]
           /\ sessions' = SetSession(sessions, ConnAddr, d.s)
           /\ wire' = d.rest
           /\ received' = Append(received,
                  [in |-> [i \in 1..Len(wire) |-> wire[i].sealed.nonce],
                   before |-> sess.S.decryptCount,
                   written |-> Len(wire),
                   n |-> Len(wire) - Len(d.rest),
                   err |-> d.err,
                   data |-> d.buf])
           /\ conns' = IF d.err THEN [conns EXCEPT ![ConnAddr] = "closed"] ELSE conns
    /\ last' = Did("ConnRead", ConnAddr, NoReply)
    /\ UNCHANGED <<store, pc, pending, sent, emitted, tampers>>
    /\ UNCHANGED <<admVars, chrVars>>

\* the serve loop of a closed connection ends and reports StateClosed
ServeLoopClosed ==
    /\ conns[ConnAddr] = "closed"
    /\ ConnStateEvent(ConnAddr, "closed")

\* ------------------------------------------------------------------- Spec
InitSession ==
    /\ sess = [S |-> NewSession("shared", Pairing("ctrl-A", "ltpk-1", PermissionAdmin)),
               peer |-> PeerSession("shared", Pairing("ctrl-A", "ltpk-1", PermissionAdmin))]
    /\ wire = <<>>
    /\ sent = <<>>
    /\ emitted = <<>>
    /\ received = <<>>
    /\ tampers = 0

Init == InitServer /\ InitSession

Next ==
    \/ \E a \in Addrs : SetConn(a)
    \/ \E a \in Addrs, event \in ConnStates : ConnStateEvent(a, event)
    \/ \E a \in Addrs : pairSetup(a)
    \/ \E a \in Addrs : pairSetupBusy(a)
    \/ \E a \in Addrs, data \in SetupRequests : pairSetupBody(a, data)
    \/ \E a \in Addrs, storeOK \in BOOLEAN : pairSetupStep5Save(a, storeOK)
    \/ \E a \in Addrs : pairVerifyStep1(a)
    \/ \E a \in Addrs, name \in Names, sigOK \in BOOLEAN : pairVerifyStep3(a, name, sigOK)

Spec == Init /\ [][Next]_vars

\* the most frames MaxMsgs messages can put on the wire
MaxWire == (MaxChunks + 1) * MaxMsgs

NextSession ==
    \/ \E n \in Lengths \cup FollowLengths : DoEncrypt(n)
    \/ DoDecrypt
    \/ \E i, j \in 1..MaxWire : DropChunks(i, j)
    \/ \E i \in 1..MaxWire : SwapChunks(i)

SpecSession == Init /\ [][NextSession]_vars

\* a controller was paired and verified from ConnAddr: its Session is in
\* the registry and its connection is open
InitConn ==
    /\ store = {Pairing("ctrl-A", "ltpk-1", PermissionAdmin)}
    /\ sessions = [a \in Addrs |-> IF a = ConnAddr
                                    THEN NewSession("shared", Pairing("ctrl-A", "ltpk-1", PermissionAdmin))
                                    ELSE NoSession]
    /\ conns = [a \in Addrs |-> IF a = ConnAddr THEN "open" ELSE "none"]
    /\ pc = [a \in Addrs |-> "idle"]
    /\ pending = [a \in Addrs |-> NoPairing]
    /\ last = Did("init", 0, NoReply)
    /\ job = [a \in Addrs |-> NoJob]
    /\ reqs = 0
    /\ chars = [c \in Chars |-> [Val |-> "v0", Events |-> [a \in Addrs |-> "unset"]]]
    /\ InitSession

NextConn ==
    \/ \E n \in ReadLengths : PeerEncrypt(n)
    \/ \E i \in 1..MaxWire : FlipByte(i)
    \/ ConnRead
    \/ \E event \in ConnStates : ConnStateEvent(ConnAddr, event)

\* the accessory after its first pair-setup: one admin Pairing, no
\* connection yet
InitPairings ==
    /\ store = {Pairing("ctrl-A", "ltpk-1", PermissionAdmin)}
    /\ InitRegistry
    /\ InitSession

NextPairings ==
    \/ \E a \in Addrs : SetConn(a)
    \/ \E a \in Addrs : ConnStateEvent(a, "closed")
    \/ \E a \in Addrs : pairVerifyStep1(a)
    \/ \E a \in Addrs, name \in Names, sigOK \in BOOLEAN : pairVerifyStep3(a, name, sigOK)
    \/ \E a \in Addrs, d \in PairingRequests : Pairings(a, d)
    \/ \E a \in Addrs : PairingsLookup(a)
    \/ \E a \in Addrs, storeOK \in BOOLEAN : PairingsSave(a, storeOK)
    \/ \E a \in Addrs, storeOK \in BOOLEAN : PairingsDelete(a, storeOK)
    \/ \E a \in Addrs : PairingsClose(a)

SpecPairings == InitPairings /\ [][NextPairings]_vars

\* a fresh accessory, or one that has been paired with one controller
InitAccess ==
    /\ store \in {{}, {Pairing("ctrl-A", "ltpk-1", PermissionAdmin)}}
    /\ InitRegistry
    /\ InitSession

NextAccess ==
    \/ \E a \in Addrs : SetConn(a)
    \/ \E a \in Addrs : ConnStateEvent(a, "closed")
    \/ \E a \in Addrs : pairVerifyStep1(a)
    \/ \E a \in Addrs, sigOK \in BOOLEAN : pairVerifyStep3(a, "ctrl-A", sigOK)
    \/ \E a \in Addrs, q \in GetRequests : GetCharacteristics(a, q)
    \/ \E a \in Addrs, ds \in PutRequests : PutCharacteristics(a, FALSE, ds)
    \/ \E a \in Addrs : PutCharacteristics(a, TRUE, <<>>)

SpecAccess == InitAccess /\ [][NextAccess]_vars

\* a paired accessory; the characteristics handlers of the connections run
\* concurrently
InitEvents ==
    /\ store = {Pairing("ctrl-A", "ltpk-1", PermissionAdmin)}
    /\ InitRegistry
    /\ InitSession

NextEvents ==
    \/ \E a \in Addrs : SetConn(a)
    \/ \E a \in Addrs, c \in Chars, ev \in {"true", "false"} : PutEventsBegin(a, c, ev)
    \/ \E a \in Addrs, c \in Chars : GetEventsBegin(a, c)
    \/ \E a \in Addrs, outcome \in {"stored", "lost", "fatal"} : PutEventsDone(a, outcome)
    \/ \E a \in Addrs, outcome \in {"true", "false", "fatal"} : GetEventsDone(a, outcome)

SpecEvents == InitEvents /\ [][NextEvents]_vars

\* the serve goroutine of a connection runs until it has reported the end
\* of the connection
SpecConn == InitConn /\ [][NextConn]_vars /\ WF_vars(ServeLoopClosed)

\* ---------------------------------------------------------------- claims
SetupSessions == {a \in Addrs : sessions[a].type = "setup"}

\* C1: at most one PairSetupSession exists in the session registry at any
\* time, whatever the interleaving of pair-setup requests.
C1_AtMostOnePairSetupSession == Cardinality(SetupSessions) <= 1

\* C2: a pair-setup request that arrives while the store holds a Pairing is
\* answered with TlvError=Unavailable and ends there: the registry and the
\* store are unchanged.
C2_PairedRefusesSetup ==
    [][\A a \in Addrs :
         (last'.op = "pairSetup" /\ last'.addr = a /\ store # {})
         => /\ last'.reply.Error = "Unavailable"
            /\ pc'[a] = "idle"
            /\ sessions' = sessions
            /\ store' = store]_vars

C2_Witness ==
    /\ last.op = "pairSetup"
    /\ last.reply.Error = "Unavailable"
    /\ store # {}

\* C3: the busy check of a request from a answers Busy exactly when another
\* remote-addr holds a session value, a Busy refusal changes neither the
\* registry nor the store, Busy has no other origin, and a Step1 that
\* passed the check installs a fresh PairSetupSession under a, replacing
\* what a held.
C3_BusyIffOtherAddr ==
    [][\A a \in Addrs :
         /\ (last'.op = "pairSetupBusy" /\ last'.addr = a)
            => /\ (last'.reply.Error = "Busy")
                    <=> (\E b \in Addrs : b # a /\ sessions[b].type # "none")
               /\ sessions' = sessions
               /\ store' = store
               /\ (last'.reply.Error # "Busy" => pc'[a] = "body")
         /\ (last'.reply.Error = "Busy") => (last'.op = "pairSetupBusy")
         /\ (last'.op = "pairSetupStep1" /\ last'.addr = a)
            => /\ sessions'[a] = NewPairSetupSession
               /\ \A b \in Addrs : b # a => sessions'[b] = sessions[b]]_vars

C3_Witness ==
    /\ last.op = "pairSetupBusy"
    /\ last.reply.Error = "Busy"
    /\ \E b \in Addrs : b # last.addr /\ sessions[b].type # "none"

\* C4: when Step5 has answered {EncryptedData, State=6} without TlvError,
\* the store holds exactly the admin Pairing of the controller's identifier
\* and public key.
C4_S6ReplyImpliesStored ==
    (last.op = "pairSetupStep5Save")
    => /\ last.pairing.Permission = PermissionAdmin
       /\ store = {last.pairing}

\* C5: after a failed pair-setup step and after a successful S6 reply the
\* registry holds no PairSetupSession under that remote-addr.
C5_SessionDroppedAfterStep ==
    \A a \in Addrs :
        (/\ last.addr = a
         /\ pc[a] = "idle"
         /\ \/ last.op = "pairSetupStep5Save"
            \/ /\ last.op \in {"pairSetupStep3", "pairSetupStep5"}
               /\ last.reply.cause \in {"A", "M1", "decrypt", "tlv8", "signature"})
        => sessions[a].type # "setup"

\* C6: every failure of Step5 (decryption, inner TLV8, signature) is
\* answered with TlvError=InvalidRequest and the handler ends without
\* saving a Pairing.
C6_Step5FailureInvalidRequest ==
    (/\ last.op = "pairSetupStep5"
     /\ last.reply.cause \in {"decrypt", "tlv8", "signature"})
    => /\ last.reply.Error = "InvalidRequest"
       /\ pc[last.addr] = "idle"

\* ------------------------------------------------- claims on the transport
\* the counter values of the chunks Encrypt emitted for the m-th message
ChunksOf(m) == [i \in 1..sent[m].n |-> sent[m].first + i - 1]

\* the plaintext bytes of the emitted chunk with counter value c
ChunkPlain(c) ==
    LET m == CHOOSE k \in 1..Len(sent) : sent[k].first <= c /\ c < sent[k].first + sent[k].n
        off == (c - sent[m].first) * PacketLengthMax
    IN  SubSeq(Plain(sent[m].len, sent[m].seed), off + 1, off + emitted[c + 1].length)

RECURSIVE Concat(_)
Concat(ss) == IF ss = <<>> THEN <<>> ELSE Head(ss) \o Concat(Tail(ss))

\* a Decrypt call was handed exactly the output of the m-th Encrypt call,
\* with its counter where the writer's was
InLockstep(r, m) == r.before = sent[m].first /\ r.in = ChunksOf(m)

\* C7: peer.Decrypt(S.Encrypt(P)) = P without error, for counters in
\* lockstep and every plaintext length around the chunk boundaries.
C7_RoundTrip ==
    \A k \in 1..Len(received), m \in 1..Len(sent) :
        InLockstep(received[k], m)
        => /\ ~received[k].err
           /\ received[k].data = Plain(sent[m].len, sent[m].seed)

C7_Witness ==
    \E k \in 1..Len(received), m \in 1..Len(sent) :
        /\ InLockstep(received[k], m)
        /\ sent[m].len = MaxChunks * PacketLengthMax
        /\ sent[m].n >= 2
        /\ received[k].data = Plain(sent[m].len, sent[m].seed)

\* position j of the stream handed to Decrypt does not hold the chunk that
\* was emitted with the counter value Decrypt uses there
Displaced(r, j) == r.in[j] # r.before + j - 1

FullChunk(c) == emitted[c + 1].length = PacketLengthMax

\* C8 as claimed: a Decrypt call handed anything but the exact chunk
\* sequence of the one Encrypt call so far returns an error.
C8_AnyLossOrReorderFails ==
    \A k \in 1..Len(received) :
        (/\ received[k].before = 0
         /\ received[k].written = sent[1].n
         /\ received[k].in # ChunksOf(1))
        => received[k].err

\* C8 amended: Decrypt returns an error and no plaintext exactly when it
\* meets a displaced chunk before a terminal short chunk; otherwise it
\* returns the plaintext of the chunks it consumed, which are the emitted
\* chunks at its counter positions (so a lost tail goes unnoticed).
C8_DisplacedChunkFails ==
    \A k \in 1..Len(received) :
        LET r == received[k]
        IN  /\ r.err <=> \E j \in 1..Len(r.in) :
                            /\ Displaced(r, j)
                            /\ \A i \in 1..(j - 1) : FullChunk(r.in[i])
            /\ r.err => r.data = <<>>
            /\ ~r.err => /\ \A j \in 1..r.n : ~Displaced(r, j)
                         /\ r.data = Concat([j \in 1..r.n |-> ChunkPlain(r.before + j - 1)])

C8_Witness ==
    \E k \in 1..Len(received) :
        /\ received[k].err
        /\ Len(received[k].in) >= 2
        /\ Displaced(received[k], 2)
        /\ ~Displaced(received[k], 1)

RECURSIVE SumN(_)
SumN(rs) == IF rs = <<>> THEN 0 ELSE Head(rs).n + SumN(Tail(rs))

\* C9: both counters start at 0 and never decrease; encryptCount is the
\* number of chunks emitted so far, each Encrypt call adds the number of
\* chunks it emitted, each Decrypt call adds the number of chunks it
\* consumed, and the k-th emitted chunk carries the nonce k-1.
C9_Counters ==
    /\ sess.S.encryptCount = 0
    /\ sess.peer.decryptCount = 0
    /\ [](/\ sess.S.encryptCount = Len(emitted)
          /\ \A k \in 1..Len(emitted) : emitted[k].nonce = k - 1
          /\ sess.peer.decryptCount = SumN(received))
    /\ [][/\ sess'.S.encryptCount >= sess.S.encryptCount
          /\ sess'.peer.decryptCount >= sess.peer.decryptCount
          /\ sess'.S.encryptCount - sess.S.encryptCount = Len(emitted') - Len(emitted)
          /\ Len(sent') > Len(sent)
             => sess'.S.encryptCount = sess.S.encryptCount + sent'[Len(sent')].n
          /\ Len(received') > Len(received)
             => sess'.peer.decryptCount
                  = sess.peer.decryptCount + (Len(wire) - Len(wire'))]_vars

C9_Witness ==
    /\ sess.S.encryptCount >= 3
    /\ sess.peer.decryptCount >= 3
    /\ Len(sent) >= 2

\* C10: every message Encrypt wrote is cut into chunks of at most 0x400
\* bytes and ends with a chunk shorter than 0x400, so on an undisturbed
\* stream the k-th Decrypt call returns exactly the k-th message.
C10_TerminalShortChunk ==
    /\ \A m \in 1..Len(sent) :
          sent[m].len > 0
          => /\ sent[m].n >= 1
             /\ \A c \in sent[m].first..(sent[m].first + sent[m].n - 1) :
                    emitted[c + 1].length <= PacketLengthMax
             /\ emitted[sent[m].first + sent[m].n].length < PacketLengthMax
    /\ tampers = 0
       => \A k \in 1..Len(received) :
             sent[k].len > 0
             => /\ ~received[k].err
                /\ received[k].data = Plain(sent[k].len, sent[k].seed)

\* ---------------------------------------------- claims on the connection
\* the stream Decrypt is handed holds a chunk that fails tag verification,
\* after full chunks only
TagFailureMet ==
    \E j \in 1..Len(wire) :
        /\ Flipped(wire[j])
        /\ \A i \in 1..(j - 1) : ~Flipped(wire[i]) /\ wire[i].length = PacketLengthMax

ReadFailed == \E k \in 1..Len(received) : received[k].err

\* C11: when a chunk fails tag verification, Decrypt returns an error and
\* no plaintext and the connection is closed; no later Decrypt of that
\* Session returns plaintext; and the Session and the Conn are then
\* removed from the registry.
C11_TagFailureKillsSession ==
    /\ [][(Len(received') > Len(received) /\ TagFailureMet)
            => /\ received'[Len(received')].err
               /\ received'[Len(received')].data = <<>>
               /\ conns'[ConnAddr] = "closed"]_vars
    /\ [](\A k \in 1..Len(received) : received[k].err => k = Len(received))
    /\ (ReadFailed ~> (sessions[ConnAddr] = NoSession /\ conns[ConnAddr] = "none"))

\* a read failed and the Session was evicted while the stream still holds
\* a message that the Session's keys and counter would open
C11_Witness ==
    /\ ReadFailed
    /\ sessions[ConnAddr] = NoSession
    /\ conns[ConnAddr] = "none"
    /\ wire # <<>>
    /\ ~Decrypt(sess.S, wire).err
    /\ Decrypt(sess.S, wire).buf # <<>>

\* C12: ConnStateEvent(Closed) removes the session entry and the Conn
\* entry of that remote-addr and no other entry; any other state changes
\* neither map; afterwards the three lookups for that remote-addr fail.
C12_ClosedRemovesBothEntries ==
    /\ [][\A a \in Addrs :
            (last'.op = "ConnStateEvent" /\ last'.addr = a)
            => IF last'.reply.cause = "closed"
                 THEN /\ sessions'[a] = NoSession
                      /\ conns'[a] = "none"
                      /\ \A b \in Addrs \ {a} :
                             sessions'[b] = sessions[b] /\ conns'[b] = conns[b]
                 ELSE sessions' = sessions /\ conns' = conns]_vars
    /\ [](\A a \in Addrs :
            (last.op = "ConnStateEvent" /\ last.addr = a /\ last.reply.cause = "closed")
            => /\ ~GetSession(a).ok
               /\ ~GetPairSetupSession(a).ok
               /\ ~GetPairVerifySession(a).ok)

C12_Witness ==
    /\ last.op = "ConnStateEvent"
    /\ last.reply.cause = "closed"
    /\ sessions[last.addr] = NoSession
    /\ \E b \in Addrs \ {last.addr} : sessions[b].type = "session" /\ conns[b] = "open"

\* ------------------------------------------------ claims on the pairings
\* the stored Pairing of the controller that owns the Session of a
OwnerStored(a) == {q \in store : q.Name = sessions[a].Pairing.Name}

\* C13: an AddPairing or DeletePairing request made under a Session
\* whose Pairing is stored with a permission other than admin does not
\* get past the permission check (it is answered Authentication).
C13_NonAdminRefused ==
    \A a \in Addrs :
        (/\ last.op = "Pairings"
         /\ last.addr = a
         /\ pc[a] = "lookup"
         /\ job[a].d.Method \in {"AddPairing", "DeletePairing"})
        => \A q \in OwnerStored(a) : q.Permission = PermissionAdmin

\* the Pairings of st with a name other than name
Others(st, name) == {q \in st : q.Name # name}

\* what the lookup of an AddPairing request decides: a key mismatch is
\* answered Unknown and ends the request, an equal key keeps name and key
\* and takes the submitted permission, a new identifier gives {id, key,
\* permission}
AddLookupStep(a) ==
    LET d == job[a].d
        qs == {q \in store : q.Name = d.Identifier}
    IN  (last'.op = "PairingsLookup" /\ last'.addr = a /\ d.Method = "AddPairing")
        => /\ store' = store
           /\ \A q \in qs :
                 IF q.PublicKey # d.PublicKey
                 THEN last'.reply.Error = "Unknown" /\ pc'[a] = "idle"
                 ELSE /\ pc'[a] = "save"
                      /\ job'[a].p = Pairing(q.Name, q.PublicKey, d.Permission)
           /\ qs = {} => /\ pc'[a] = "save"
                          /\ job'[a].p = Pairing(d.Identifier, d.PublicKey, d.Permission)

\* the save of an AddPairing request stores the Pairing under its name,
\* leaves every other Pairing alone and answers State=2
AddSaved(a) ==
    /\ last'.reply = tlv8OK(Step2)
    /\ job[a].p \in store'
    /\ Others(store', job[a].p.Name) = Others(store, job[a].p.Name)
    /\ \A q \in store' : q.Name = job[a].p.Name => q = job[a].p

\* C14 as claimed: AddPairing by an admin Session answers Unknown on a key
\* mismatch and otherwise updates the permission or creates the Pairing,
\* every other Pairing unchanged, with the reply State=2.
C14_AddPairing ==
    [][\A a \in Addrs :
         /\ AddLookupStep(a)
         /\ (last'.op = "PairingsSave" /\ last'.addr = a) => AddSaved(a)]_vars

\* C14 amended: as claimed, unless the store fails to write: then the
\* reply is TlvError=Unknown and the store is unchanged.
C14_AddPairingOrStoreError ==
    [][\A a \in Addrs :
         /\ AddLookupStep(a)
         /\ (last'.op = "PairingsSave" /\ last'.addr = a)
            => \/ AddSaved(a)
               \/ /\ last'.reply.Error = "Unknown"
                  /\ last'.reply.cause = "store"
                  /\ store' = store]_vars

\* an admin changed the permission of a stored Pairing and added another
C14_Witness ==
    /\ last.op = "PairingsSave"
    /\ last.reply = tlv8OK(Step2)
    /\ Pairing("ctrl-A", "ltpk-1", PermissionUser) \in store
    /\ \E q \in store : q.Name = "ctrl-B"

\* C15: a delete answers State=2 before it closes anything, and when its
\* handler then finds no admin Pairing in the store it closes every Conn
\* of the registry, whatever its remote-addr holds in the session map.
C15_LastAdminClosesAll ==
    [][\A a \in Addrs :
         /\ (last'.op = "PairingsDelete" /\ last'.addr = a /\ pc'[a] = "close")
            => /\ last'.reply = tlv8OK(Step2)
               /\ conns' = conns
               /\ HasPairing(store, job[a].p.Name)
               /\ ~HasPairing(store', job[a].p.Name)
         /\ (last'.op = "PairingsClose" /\ last'.addr = a)
            => /\ pc[a] = "close"
               /\ (\A q \in store : q.Permission # PermissionAdmin)
                  => \A addr \in Addrs : conns[addr] # "none" => conns'[addr] = "closed"]_vars

C15_Witness ==
    /\ last.op = "PairingsClose"
    /\ \A q \in store : q.Permission # PermissionAdmin
    /\ \E b \in Addrs : /\ b # last.addr
                         /\ conns[b] = "closed"
                         /\ sessions[b].type # "session"

\* the connections whose remote-addr holds an established Session of the
\* controller called name
ConnsOf(name) ==
    {addr \in Addrs : /\ conns[addr] # "none"
                      /\ sessions[addr].type = "session"
                      /\ sessions[addr].Pairing.Name = name}

\* C16: when a delete leaves an admin Pairing, exactly the Conns with an
\* established Session of the removed controller are closed and every
\* other Conn is left as it is; a delete that fails (unknown identifier,
\* store error) answers Unknown and closes nothing.
C16_ClosesOnlyRemoved ==
    [][\A a \in Addrs :
         /\ (/\ last'.op = "PairingsClose"
             /\ last'.addr = a
             /\ \E q \in store : q.Permission = PermissionAdmin)
            => \A addr \in Addrs :
                  conns'[addr] = IF addr \in ConnsOf(job[a].p.Name)
                                 THEN "closed" ELSE conns[addr]
         /\ (/\ last'.op \in {"PairingsLookup", "PairingsDelete"}
             /\ last'.addr = a
             /\ job[a].d.Method = "DeletePairing"
             /\ pc'[a] # "close")
            => \/ pc'[a] = "delete" /\ conns' = conns /\ store' = store
               \/ /\ pc'[a] = "idle"
                  /\ last'.reply.Error = "Unknown"
                  /\ conns' = conns
                  /\ store' = store]_vars

C16_Witness ==
    /\ last.op = "PairingsClose"
    /\ \E q \in store : q.Permission = PermissionAdmin
    /\ \E b \in Addrs : /\ conns[b] = "closed"
                         /\ sessions[b].type = "session"
                         /\ sessions[b].Pairing.Name = last.pairing.Name
    /\ \E c \in Addrs : /\ conns[c] = "open"
                         /\ sessions[c].type = "session"
                         /\ sessions[c].Pairing.Name # last.pairing.Name

\* ----------------------------------------- claims on the characteristics
CharOps == {"GetCharacteristics", "PutCharacteristics"}

\* the last step was a PUT that got past the paired check and the JSON
\* decoder
PutDone == last.op = "PutCharacteristics" /\ last.reply.Error = "none"

\* C17: a GET or PUT characteristics request from a remote-addr without
\* an established Session is answered InsufficientPrivileges and calls no
\* read hook, no write hook and writes no events map.
C17_NoSessionRefused ==
    (last.op \in CharOps /\ sessions[last.addr].type # "session")
    => /\ last.reply.Error = "InsufficientPrivileges"
       /\ last.hooks = NoHooks

\* C18: a PUT element with a value for a characteristic without write
\* permission gets an element with an error status in the response, and
\* the response is not 204 No Content.
C18_ReadOnlyWriteIsError ==
    PutDone
    => \A i \in 1..Len(last.req) :
          LET e == last.req[i]
          IN  (/\ e.value # "absent"
               /\ e.id \in Chars
               /\ PermissionWrite \notin Permissions(e.id))
              => /\ last.reply.status # 204
                 /\ \E j \in 1..Len(last.body) :
                        last.body[j].id = e.id /\ last.body[j].status # "none"

\* C19: a PUT element with ev for a characteristic without Events
\* permission gives a 207 response with an element of status
\* NotificationNotSupported for it and leaves its events map as it was;
\* for a characteristic with Events permission the entry of the request's
\* remote-addr becomes the given bool; no other entry of any events map
\* changes.
C19_Subscribe ==
    [][(last'.op = "PutCharacteristics" /\ last'.reply.Error = "none")
       => LET a == last'.addr
              req == last'.req
              body == last'.body
          IN  /\ \A i \in 1..Len(req) :
                    (req[i].ev # "absent" /\ req[i].id \in Chars)
                    => IF PermissionEvents \in Permissions(req[i].id)
                       THEN chars'[req[i].id].Events[a] = req[i].ev
                       ELSE /\ last'.reply.status = 207
                            /\ \E j \in 1..Len(body) :
                                   /\ body[j].id = req[i].id
                                   /\ body[j].status = "NotificationNotSupported"
                            /\ chars'[req[i].id].Events = chars[req[i].id].Events
              /\ \A c \in Chars, b \in Addrs :
                    chars'[c].Events[b] # chars[c].Events[b]
                    => /\ b = a
                       /\ PermissionEvents \in Permissions(c)
                       /\ \E i \in 1..Len(req) :
                              req[i].id = c /\ req[i].ev # "absent"]_vars

\* one request subscribed its remote-addr to the sensor and was refused
\* for the switch, while another remote-addr holds a subscription
C19_Witness ==
    /\ PutDone
    /\ last.reply.status = 207
    /\ \E j \in 1..Len(last.body) :
          last.body[j].id = "switch" /\ last.body[j].status = "NotificationNotSupported"
    /\ chars["sensor"].Events[last.addr] = "true"
    /\ chars["switch"].Events = [a \in Addrs |-> "unset"]
    /\ \E b \in Addrs \ {last.addr} : chars["sensor"].Events[b] # "unset"

\* C20: an element with r = true and a value is answered with an element
\* that carries the value the characteristic has after the write; an
\* element with r = false or without r gets no element with a value.
C20_EchoPostWrite ==
    PutDone
    => \A i \in 1..Len(last.req) :
          LET e == last.req[i]
          IN  e.id \in Chars
              => /\ (e.r = "true" /\ e.value # "absent")
                    => \E j \in 1..Len(last.body) :
                          /\ last.body[j].id = e.id
                          /\ last.body[j].value = ValueRequest(chars, e.id)
                 /\ (e.r # "true")
                    => \A j \in 1..Len(last.body) :
                          last.body[j].id = e.id => last.body[j].value = "absent"

\* C21: a GET characteristics request that reaches the loop over the ids
\* answers 200 exactly when every requested (aid, iid) pair resolved to a
\* characteristic and 207 otherwise; the response holds one element per
\* requested pair, in request order: an unresolved pair carries status
\* ServiceCommunicationFailure and no value, a resolved pair the current
\* value and no status. The request changes no value and no events map.
C21_GetMultiStatus ==
    [][(last'.op = "GetCharacteristics" /\ last'.reply.Error = "none")
       => LET pairs == SelectSeq(last'.req, IsPair)
              body == last'.body
          IN  /\ last'.reply.status =
                     IF \A i \in 1..Len(pairs) : pairs[i] \in Chars THEN 200 ELSE 207
              /\ Len(body) = Len(pairs)
              /\ \A i \in 1..Len(pairs) :
                    /\ body[i].id = pairs[i]
                    /\ IF pairs[i] \in Chars
                       THEN /\ body[i].value = chars[pairs[i]].Val
                            /\ body[i].status = "none"
                       ELSE /\ body[i].value = "absent"
                            /\ body[i].status = "ServiceCommunicationFailure"
              /\ chars' = chars]_vars

\* a GET for a characteristic and an unknown pair was answered 207 with
\* both elements, the first with the current value, while an events
\* map holds a subscription
C21_Witness ==
    /\ last.op = "GetCharacteristics"
    /\ last.reply.status = 207
    /\ Len(last.body) = 2
    /\ last.body[1].id = "sensor" /\ last.body[1].value = chars["sensor"].Val
    /\ last.body[2].status = "ServiceCommunicationFailure"
    /\ \E c \in Chars, a \in Addrs : chars[c].Events[a] = "true"

\* C22: a pair-setup request with a State other than 1, 3, 5 or a Method
\* other than Pair, a pairings request with a Method other than Add,
\* Delete, List, and a body that is not TLV8 are answered with HTTP 400
\* and a TlvError, and leave the session registry and the store as they
\* were.
C22_MisuseIs400 ==
    [][(/\ last'.op \in {"pairSetupBody", "Pairings"}
        /\ last'.reply.cause \in {"tlv8", "state", "method"})
       => /\ last'.reply.status = 400
          /\ last'.reply.Error # "none"
          /\ sessions' = sessions
          /\ store' = store]_vars

\* C23: no two handlers of different connections are inside an access to
\* the events map of the same characteristic at the same time when one of
\* them writes it (two PUT requests, or a PUT and a GET with ev=1).
C23_EventsMapMutex ==
    \A a, b \in Addrs :
        (/\ a # b
         /\ pc[a] \in EventsPcs
         /\ pc[b] \in EventsPcs
         /\ job[a].d.id = job[b].d.id)
        => (pc[a] = "evread" /\ pc[b] = "evread")

\* C24: pair-setup Step5 answers State 6 without error, and goes on to
\* save the Pairing, only on a PairSetupSession on which Step3 succeeded:
\* the client proof was verified and the encryption key K derived.
C24_S5NeedsS3 ==
    (/\ last.op = "pairSetupStep5"
     /\ last.reply = tlv8OK(Step6))
    => /\ sessions[last.addr].PrivateKey = "S"
       /\ sessions[last.addr].EncryptionKey = "K"

\* C25: a remote-addr without a connection in the registry (none was
\* accepted yet, or ConnStateEvent Closed removed it) has no subscription:
\* no characteristic's events map holds true under it, so the next
\* connection from that remote-addr starts without subscriptions.
C25_ClosedHasNoSubscription ==
    \A a \in Addrs :
        conns[a] = "none" => \A c \in Chars : chars[c].Events[a] # "true"

\* C26: when an AddPairing or DeletePairing request has run to its end
\* and the store holds no Pairing with admin permission, no Conn of the
\* registry is left open.
C26_NoAdminNoConn ==
    [][(/\ last'.op \in {"PairingsSave", "PairingsClose"}
        /\ pc'[last'.addr] = "idle"
        /\ ~ \E p \in store' : p.Permission = PermissionAdmin)
       => \A b \in Addrs : conns'[b] # "open"]_vars

====
